---------------------------- MODULE Spec2Model ----------------------------
(***************************************************************************)
(* A model of idstools/unified2.py: the unified2 record reader, the event  *)
(* aggregator, the file readers and the spool-directory readers.           *)
(*                                                                         *)
(* Files are sequences of bytes.  A record is an 8 byte header (type and   *)
(* length, big-endian) followed by length bytes of payload.  A decoded     *)
(* record keeps its type code and its payload (every field of the record   *)
(* is a function of the payload), and an Event carries the two lists the   *)
(* aggregator fills.                                                       *)
(***************************************************************************)
EXTENDS Integers, Sequences, FiniteSets, TLC

VARIABLES
    \* ---- the file system --------------------------------------------
    content,    \* name -> bytes of the file (kept while a handle is open)
    dir,        \* the names present in the spool directory
    wpend,      \* bytes of a record the writer has not yet appended
    nwritten,   \* number of records the writer has started
    \* ---- the first reader --------------------------------------
    rd,         \* its fields and its position in next()
    out,        \* what its next() calls returned, in order
    hooks,      \* the calls of the rollover hook, in order
    opens,      \* the files opened with open(), in order
    seen,       \* the records its record reader has read, in order
    ctor,       \* the resume point it was constructed with, where recorded
    \* ---- a reader constructed from tell() ---------------------------
    rd2,        \* the fresh reader
    out2,       \* what its next() calls returned
    outAt,      \* Len(out) when the fresh reader was constructed
    forked,     \* whether the fresh reader exists
    \* ---- read_record on one stream ----------------------------------
    stream,     \* the bytes of the file object
    spos,       \* its position
    sres,       \* what the calls of read_record did, in order
    \* ---- decode_record on one buffer --------------------------------
    dec,        \* the arguments of the call and what it returned
    \* ---- the Aggregator ---------------------------------------------
    queue,      \* Aggregator.queue
    fed,        \* the records given to add, in order
    ops,        \* the calls made, in order, each with its result
    \* ---- FileRecordReader / FileEventReader -------------------------
    fr,         \* the reader's fields
    fout        \* what its next() calls returned, in order

vars == <<content, dir, wpend, nwritten, rd, out, hooks, opens, seen, ctor,
          rd2, out2, outAt, forked, stream, spos, sres, dec,
          queue, fed, ops, fr, fout>>

fsVars     == <<content, dir, wpend, nwritten>>
readerVars == <<rd, out, hooks, opens, seen, ctor>>
forkVars   == <<rd2, out2, outAt, forked>>
streamVars == <<stream, spos, sres, dec>>
aggVars    == <<queue, fed, ops>>
fileVars   == <<fr, fout>>

-----------------------------------------------------------------------------
(* Program constants.                                                      *)

HDR_LEN == 8

PACKET == 2

EVENT == 7

EVENT_IP6 == 72

EVENT_V2 == 104

EVENT_IP6_V2 == 105

EXTRA_DATA == 110

\* Record type codes no decoder is registered for.
UnknownTypes == {1}

-----------------------------------------------------------------------------
(* Sequences and bytes.                                                    *)

Min(a, b) == IF a < b THEN a ELSE b

RECURSIVE Sum(_)
Sum(s) == IF s = <<>> THEN 0 ELSE Head(s) + Sum(Tail(s))

RECURSIVE Flatten(_)
Flatten(ss) == IF ss = <<>> THEN <<>> ELSE Head(ss) \o Flatten(Tail(ss))

IsPrefix(s, t) == Len(s) <= Len(t) /\ SubSeq(t, 1, Len(s)) = s

Zeros(n) == [i \in 1..n |-> 0]

\* struct.pack(">L", n)
BE32(n) ==
    << (n \div 16777216) % 256, (n \div 65536) % 256, (n \div 256) % 256, n % 256 >>

\* struct.unpack(">L", b)
Unpack32(b) == ((b[1] * 256 + b[2]) * 256 + b[3]) * 256 + b[4]

-----------------------------------------------------------------------------
(* The field tables: each field's length and the size of its format        *)
(* ("L" 4, "H" 2, "B" 1, "4s" 4, "16s" 16); the trailing data field has   *)
(* neither.                                                                *)

Field(length, fsize) == [length |-> length, fsize |-> fsize]

PACKET_FIELDS == [i \in 1..7 |-> Field(4, 4)] \o << Field(0, 0) >>

EVENT_FIELDS ==
    [i \in 1..11 |-> Field(4, 4)] \o << Field(2, 2), Field(2, 2) >>
        \o [i \in 1..4 |-> Field(1, 1)]

EVENT_IP6_FIELDS ==
    [i \in 1..9 |-> Field(4, 4)] \o << Field(4, 16), Field(4, 16) >>
        \o << Field(2, 2), Field(2, 2) >> \o [i \in 1..4 |-> Field(1, 1)]

V2_TAIL == << Field(4, 4), Field(2, 2), Field(2, 2) >>

EVENT_V2_FIELDS == EVENT_FIELDS \o V2_TAIL

EVENT_IP6_V2_FIELDS == EVENT_IP6_FIELDS \o V2_TAIL

EXTRA_DATA_FIELDS == [i \in 1..8 |-> Field(4, 4)] \o << Field(0, 0) >>

\* AbstractDecoder.fixed_len
fixed_len(fields) == Sum([i \in 1..Len(fields) |-> fields[i].length])

\* struct.calcsize(AbstractDecoder.format)
format_size(fields) == Sum([i \in 1..Len(fields) |-> fields[i].fsize])

-----------------------------------------------------------------------------
(* Decoded records.                                                        *)

NoneRec == [kind |-> "None", rtype |-> 0, buf |-> <<>>, packets |-> <<>>, extra |-> <<>>]

StructError == [kind |-> "struct.error", rtype |-> 0, buf |-> <<>>, packets |-> <<>>, extra |-> <<>>]

Rec(kind, rtype, buf) ==
    [kind |-> kind, rtype |-> rtype, buf |-> buf, packets |-> <<>>, extra |-> <<>>]

\* EventDecoder.decode: struct.unpack wants exactly the format's size.
EventDecode(rtype, fields, buf) ==
    IF Len(buf) = format_size(fields) THEN Rec("Event", rtype, buf) ELSE StructError

\* PacketDecoder.decode: the fixed part is unpacked, the rest is the data.
PacketDecode(rtype, fields, buf) ==
    IF Len(SubSeq(buf, 1, Min(fixed_len(fields), Len(buf)))) = format_size(fields)
    THEN Rec("Packet", rtype, buf) ELSE StructError

\* ExtraDataDecoder.decode
ExtraDataDecode(rtype, fields, buf) ==
    IF Len(SubSeq(buf, 1, Min(fixed_len(fields), Len(buf)))) = format_size(fields)
    THEN Rec("ExtraData", rtype, buf) ELSE StructError

\* Unknown.__init__ losing the buffer.
UnknownNoBuf(record_type, buf) == Rec("Unknown", record_type, <<>>)

\* Unknown(record_type, buf)
Unknown(record_type, buf) == Rec("Unknown", record_type, buf)

DECODERS == {EVENT, EVENT_IP6, EVENT_V2, EVENT_IP6_V2, PACKET, EXTRA_DATA}

decode_record(record_type, buf) ==
    IF record_type \in DECODERS
    THEN CASE record_type = EVENT        -> EventDecode(record_type, EVENT_FIELDS, buf)
           [] record_type = EVENT_IP6    -> EventDecode(record_type, EVENT_IP6_FIELDS, buf)
           [] record_type = EVENT_V2     -> EventDecode(record_type, EVENT_V2_FIELDS, buf)
           [] record_type = EVENT_IP6_V2 -> EventDecode(record_type, EVENT_IP6_V2_FIELDS, buf)
           [] record_type = PACKET       -> PacketDecode(record_type, PACKET_FIELDS, buf)
           [] record_type = EXTRA_DATA   -> ExtraDataDecode(record_type, EXTRA_DATA_FIELDS, buf)
    ELSE Unknown(record_type, buf)

IsEvent(r) == r.kind = "Event"

IsPacket(r) == r.kind = "Packet"

IsExtraData(r) == r.kind = "ExtraData"

\* "if record:" - a decoded record is a non-empty dict or an object.
Truthy(r) == r.kind # "None"

-----------------------------------------------------------------------------
(* read_record.                                                            *)

\* fileobj.read(n) at position pos
ReadBytes(data, pos, n) ==
    IF pos >= Len(data) THEN <<>> ELSE SubSeq(data, pos + 1, Min(pos + n, Len(data)))

\* The except clause of read_record, without its seek.
RewindNoSeek(offset, cur) == cur

\* The except clause of read_record: fileobj.seek(offset), then re-raise.
Rewind(offset, cur) == offset

\* res: "record", "None" (clean end of stream), "EOFError" or "struct.error";
\* pos: the position of the file object afterwards.
read_record(data, offset) ==
    LET hdr == ReadBytes(data, offset, HDR_LEN)
        p1  == offset + Len(hdr)
    IN  IF Len(hdr) = 0
        THEN [res |-> "None", rec |-> NoneRec, pos |-> p1]
        ELSE IF Len(hdr) < HDR_LEN
        THEN [res |-> "EOFError", rec |-> NoneRec, pos |-> Rewind(offset, p1)]
        ELSE LET rtype == Unpack32(SubSeq(hdr, 1, 4))
                 rlen  == Unpack32(SubSeq(hdr, 5, 8))
                 buf   == ReadBytes(data, p1, rlen)
                 p2    == p1 + Len(buf)
             IN  IF Len(buf) < rlen
                 THEN [res |-> "EOFError", rec |-> NoneRec, pos |-> Rewind(offset, p2)]
                 ELSE LET d == decode_record(rtype, buf)
                      IN  IF d.kind = "struct.error"
                          THEN [res |-> "struct.error", rec |-> NoneRec, pos |-> p2]
                          ELSE [res |-> "record", rec |-> d, pos |-> p2]

-----------------------------------------------------------------------------
(* The records a sensor writes: record number n of a type, told apart by   *)
(* the first byte of its payload.                                          *)

PayloadLen(rtype) ==
    CASE rtype = EVENT        -> format_size(EVENT_FIELDS)
      [] rtype = EVENT_IP6    -> format_size(EVENT_IP6_FIELDS)
      [] rtype = EVENT_V2     -> format_size(EVENT_V2_FIELDS)
      [] rtype = EVENT_IP6_V2 -> format_size(EVENT_IP6_V2_FIELDS)
      [] rtype = PACKET       -> fixed_len(PACKET_FIELDS)
      [] rtype = EXTRA_DATA   -> fixed_len(EXTRA_DATA_FIELDS)
      [] OTHER                -> 1

Payload(rtype, n) == << n >> \o Zeros(PayloadLen(rtype) - 1)

Encode(rtype, payload) == BE32(rtype) \o BE32(Len(payload)) \o payload

Written(rtype, n) == Encode(rtype, Payload(rtype, n))

WrittenRec(rtype, n) == decode_record(rtype, Payload(rtype, n))


-----------------------------------------------------------------------------
(* Bounds of the model.                                                    *)

\* read_record: records in a stream, calls made on it
MaxStreamRecs == 2

MaxReads == 3

\* Aggregator: records given to add, calls made in all
MaxFeed == 5

MaxOps == 6

\* the spool: files created, records written, calls of next() made
MaxFiles == 3

MaxRecs == 2

MaxCalls == 3

\* a spool or a file list that does not change: files, whole records
StaticFiles == 2

StaticRecs == 2

\* calls of next() on a file reader
MaxFileCalls == 4

\* decode_record: bytes in the buffer given
MaxBufLen == 2

-----------------------------------------------------------------------------
(* The states of the parts a specification leaves alone.                   *)

NoFile == [name |-> 0, pos |-> 0, closed |-> FALSE]

FsIdle == content = <<>> /\ dir = {} /\ wpend = <<>> /\ nwritten = 0

\* The resume point of a reader is not recorded.
NoCtor == [recorded |-> FALSE]

ReaderIdle ==
    /\ rd = [pc |-> "off"] /\ out = <<>> /\ hooks = <<>> /\ opens = <<>> /\ seen = <<>>
    /\ ctor = NoCtor

ForkIdle == rd2 = [pc |-> "off"] /\ out2 = <<>> /\ outAt = 0 /\ forked = FALSE

StreamIdle == stream = <<>> /\ spos = 0 /\ sres = <<>> /\ dec = [pc |-> "off"]

AggIdle == queue = <<>> /\ fed = <<>> /\ ops = <<>>

FileIdle == fr = [pc |-> "off"] /\ fout = <<>>

-----------------------------------------------------------------------------
(* read_record on one stream: the stream holds whole records and possibly  *)
(* the first bytes of one more.                                            *)

StreamTypes == {EVENT, PACKET, EXTRA_DATA} \cup UnknownTypes

WholeStreams(n) ==
    { Flatten([i \in 1..n |-> Written(ts[i], i)]) : ts \in [1..n -> StreamTypes] }

Streams ==
    UNION { { SubSeq(s, 1, k) : k \in 0..Len(s) } :
              s \in UNION { WholeStreams(n) : n \in 0..MaxStreamRecs } }

InitRead ==
    /\ stream \in Streams
    /\ spos = 0
    /\ sres = <<>>
    /\ dec = [pc |-> "off"]
    /\ FsIdle /\ ReaderIdle /\ ForkIdle /\ AggIdle /\ FileIdle

\* One call of read_record(fileobj).
ReadRecord ==
    /\ Len(sres) < MaxReads
    /\ LET r == read_record(stream, spos)
       IN  /\ spos' = r.pos
           /\ sres' = Append(sres, [res |-> r.res, rec |-> r.rec,
                                    before |-> spos, after |-> r.pos])
    /\ UNCHANGED <<stream, dec, fsVars, readerVars, forkVars, aggVars, fileVars>>

NextRead == ReadRecord

SpecRead == InitRead /\ [][NextRead]_vars

\* What the header at a position declares, read off the bytes.
DeclaredLen(data, pos) == Unpack32(SubSeq(data, pos + 5, pos + 8))

Incomplete(data, pos) ==
    LET avail == Len(data) - pos
    IN  \/ (avail >= 1 /\ avail < HDR_LEN)
        \/ (avail >= HDR_LEN /\ avail - HDR_LEN < DeclaredLen(data, pos))

\* C5: when fewer than 8 header bytes (but at least one) or fewer payload
\* bytes than the header declares are available, read_record raises EOFError
\* and leaves the position where it was before the call, so every further
\* attempt on the unchanged stream raises the same condition from the same
\* position; with no byte left at a record boundary it returns None and
\* raises nothing.
C5_TruncatedIdempotent ==
    \A i \in 1..Len(sres) :
        LET e == sres[i]
        IN  /\ Incomplete(stream, e.before) =>
                  /\ e.res = "EOFError"
                  /\ e.after = e.before
                  /\ \A j \in (i + 1)..Len(sres) : sres[j] = e
            /\ e.before = Len(stream) => (e.res = "None" /\ e.after = e.before)

\* A whole record was read, then two attempts hit a payload cut short.
C5_Witness ==
    /\ Len(sres) = 3
    /\ sres[1].res = "record"
    /\ sres[2].res = "EOFError"
    /\ sres[3].res = "EOFError"
    /\ Len(stream) - sres[2].before > HDR_LEN

-----------------------------------------------------------------------------
(* decode_record on one record type code and one buffer: the codes of the  *)
(* decoders, the codes next to them, and small, large and negative codes;  *)
(* every buffer of 0 and 255 bytes up to a length.                         *)

TypeCodes ==
    {-1, 0, 1, 3, 6, 8, 71, 73, 103, 106, 109, 111, 255, 256, 65536, 2147483647}
        \cup {PACKET, EVENT, EVENT_IP6, EVENT_V2, EVENT_IP6_V2, EXTRA_DATA}

Buffers == UNION { [1..n -> {0, 255}] : n \in 0..MaxBufLen }

InitDecode ==
    /\ \E record_type \in TypeCodes, buf \in Buffers :
          dec = [pc |-> "call", record_type |-> record_type, buf |-> buf, ret |-> NoneRec]
    /\ stream = <<>> /\ spos = 0 /\ sres = <<>>
    /\ FsIdle /\ ReaderIdle /\ ForkIdle /\ AggIdle /\ FileIdle

\* decode_record(record_type, buf); ret is what it returns, or the
\* exception it raises.
Decode ==
    /\ dec.pc = "call"
    /\ dec' = [dec EXCEPT !.pc = "done", !.ret = decode_record(dec.record_type, dec.buf)]
    /\ UNCHANGED <<stream, spos, sres, fsVars, readerVars, forkVars, aggVars, fileVars>>

NextDecode == Decode

SpecDecode == InitDecode /\ [][NextDecode]_vars

\* C14: for a record type code outside {2, 7, 72, 104, 105, 110} and any
\* buffer, decode_record raises nothing and returns an Unknown whose
\* record_type is that code and whose buf is that buffer.
C14_UnknownSafe ==
    (dec.pc = "done" /\ dec.record_type \notin {2, 7, 72, 104, 105, 110}) =>
        /\ dec.ret.kind = "Unknown"
        /\ dec.ret.rtype = dec.record_type
        /\ dec.ret.buf = dec.buf

\* Code 111, next to that of EXTRA_DATA, with a buffer of two bytes.
C14_Witness ==
    /\ dec.pc = "done"
    /\ dec.record_type = 111
    /\ dec.buf = << 255, 0 >>
    /\ dec.ret.kind = "Unknown"

-----------------------------------------------------------------------------
(* The Aggregator.                                                         *)

\* The while loop of flush putting every record that is not a Packet in the
\* extra-data of the Event.
RECURSIVE DrainKeepsUnknown(_, _)
DrainKeepsUnknown(event, q) ==
    IF q = <<>> THEN [event |-> event, queue |-> <<>>, err |-> "ok"]
    ELSE LET record == Head(q)
         IN  IF IsEvent(record)
             THEN [event |-> NoneRec, queue |-> Tail(q), err |-> "AssertionError"]
             ELSE IF IsPacket(record)
             THEN DrainKeepsUnknown([event EXCEPT !.packets = Append(@, record)], Tail(q))
             ELSE DrainKeepsUnknown([event EXCEPT !.extra = Append(@, record)], Tail(q))

\* The while loop of flush: err is "AssertionError" when a later element
\* of the queue is an Event (the rest of the queue is then left in place).
RECURSIVE Drain(_, _)
Drain(event, q) ==
    IF q = <<>> THEN [event |-> event, queue |-> <<>>, err |-> "ok"]
    ELSE LET record == Head(q)
         IN  IF IsEvent(record)
             THEN [event |-> NoneRec, queue |-> Tail(q), err |-> "AssertionError"]
             ELSE IF IsPacket(record)
             THEN Drain([event EXCEPT !.packets = Append(@, record)], Tail(q))
             ELSE IF IsExtraData(record)
             THEN Drain([event EXCEPT !.extra = Append(@, record)], Tail(q))
             ELSE Drain(event, Tail(q))

\* Aggregator.flush taking the Event from the head of the queue without
\* removing it.
flushKeepsEvent(q) ==
    IF q = <<>> THEN [event |-> NoneRec, queue |-> q, err |-> "ok"]
    ELSE IF ~IsEvent(Head(q))
    THEN [event |-> NoneRec, queue |-> Tail(q), err |-> "AssertionError"]
    ELSE LET d == Drain(Head(q), Tail(q))
         IN  IF d.err # "ok" THEN d ELSE [d EXCEPT !.queue = << d.event >>]

\* Aggregator.flush
flush(q) ==
    IF q = <<>> THEN [event |-> NoneRec, queue |-> q, err |-> "ok"]
    ELSE IF ~IsEvent(Head(q))
    THEN [event |-> NoneRec, queue |-> Tail(q), err |-> "AssertionError"]
    ELSE Drain(Head(q), Tail(q))

\* Aggregator.add with the last branch appending instead of discarding.
addKeepsOrphan(q, record) ==
    IF IsEvent(record)
    THEN IF q # <<>>
         THEN LET f == flush(q)
              IN  IF f.err # "ok" THEN f
                  ELSE [event |-> f.event, queue |-> Append(f.queue, record), err |-> "ok"]
         ELSE [event |-> NoneRec, queue |-> Append(q, record), err |-> "ok"]
    ELSE [event |-> NoneRec, queue |-> Append(q, record), err |-> "ok"]

\* Aggregator.add appending an Event to a queue that is not empty without
\* flushing it.
addAppendsEvent(q, record) ==
    IF IsEvent(record) \/ q # <<>>
    THEN [event |-> NoneRec, queue |-> Append(q, record), err |-> "ok"]
    ELSE [event |-> NoneRec, queue |-> q, err |-> "ok"]

\* Aggregator.add with the packets of the flushed event lost.
addDropsPackets(q, record) ==
    IF IsEvent(record)
    THEN IF q # <<>>
         THEN [event |-> Head(q), queue |-> <<record>>, err |-> "ok"]
         ELSE [event |-> NoneRec, queue |-> Append(q, record), err |-> "ok"]
    ELSE IF q # <<>>
    THEN [event |-> NoneRec, queue |-> Append(q, record), err |-> "ok"]
    ELSE [event |-> NoneRec, queue |-> q, err |-> "ok"]

\* Aggregator.add
add(q, record) ==
    IF IsEvent(record)
    THEN IF q # <<>>
         THEN LET f == flush(q)
              IN  IF f.err # "ok" THEN f
                  ELSE [event |-> f.event, queue |-> Append(f.queue, record), err |-> "ok"]
         ELSE [event |-> NoneRec, queue |-> Append(q, record), err |-> "ok"]
    ELSE IF q # <<>>
    THEN [event |-> NoneRec, queue |-> Append(q, record), err |-> "ok"]
    ELSE [event |-> NoneRec, queue |-> q, err |-> "ok"]

AggTypes == {EVENT, PACKET, EXTRA_DATA} \cup UnknownTypes

InitAgg ==
    /\ queue = <<>>
    /\ fed = <<>>
    /\ ops = <<>>
    /\ FsIdle /\ ReaderIdle /\ ForkIdle /\ StreamIdle /\ FileIdle

\* aggregator.add(record), with a record not given to it before.
AggAdd ==
    /\ Len(fed) < MaxFeed
    /\ Len(ops) < MaxOps
    /\ \E t \in AggTypes :
          LET record == WrittenRec(t, Len(fed) + 1)
              a      == add(queue, record)
          IN  /\ queue' = a.queue
              /\ fed' = Append(fed, record)
              /\ ops' = Append(ops, [op |-> "add", arg |-> record, ret |-> a.event,
                                     err |-> a.err, pre |-> queue, post |-> a.queue])
    /\ UNCHANGED <<fsVars, readerVars, forkVars, streamVars, fileVars>>

\* aggregator.flush()
AggFlush ==
    /\ Len(ops) < MaxOps
    /\ LET f == flush(queue)
       IN  /\ queue' = f.queue
           /\ ops' = Append(ops, [op |-> "flush", arg |-> NoneRec, ret |-> f.event,
                                  err |-> f.err, pre |-> queue, post |-> f.queue])
    /\ UNCHANGED <<fed, fsVars, readerVars, forkVars, streamVars, fileVars>>

NextAgg == AggAdd \/ AggFlush

SpecAgg == InitAgg /\ [][NextAgg]_vars

\* The call that added the Event pending before call i: the last add of an
\* Event before i (0 if there is none).
LastEventAdd(i) ==
    LET js == { j \in 1..(i - 1) : ops[j].op = "add" /\ IsEvent(ops[j].arg) }
    IN  IF js = {} THEN 0 ELSE CHOOSE j \in js : \A k \in js : k <= j

\* The records of kind k given to add by the calls strictly between j and i.
AddedBetween(j, i, k) ==
    LET F[n \in j..(i - 1)] ==
            IF n = j THEN <<>>
            ELSE IF ops[n].op = "add" /\ ops[n].arg.kind = k
                 THEN Append(F[n - 1], ops[n].arg) ELSE F[n - 1]
    IN  F[i - 1]

\* C8: in a sequence of calls whose first record is an Event, add returns
\* an Event exactly when the record added is an Event and the queue is not
\* empty; the Event returned is the one queued before, its packets exactly
\* the Packet records and its extra-data exactly the ExtraData records added
\* since it, in arrival order; the queue then holds the new Event alone, and
\* that Event stays at the head of the queue until the next flush or Event.
C8_AddBoundary ==
    (fed # <<>> /\ IsEvent(fed[1])) =>
    \A i \in 1..Len(ops) :
        LET o == ops[i]
            j == LastEventAdd(i)
        IN  o.op = "add" =>
              /\ o.err = "ok"
              /\ Truthy(o.ret) <=> (IsEvent(o.arg) /\ o.pre # <<>>)
              /\ Truthy(o.ret) =>
                    /\ j > 0
                    /\ o.ret = [ops[j].arg EXCEPT
                                  !.packets = AddedBetween(j, i, "Packet"),
                                  !.extra = AddedBetween(j, i, "ExtraData")]
                    /\ o.post = << o.arg >>
              /\ IsEvent(o.arg) =>
                    \A k \in i..Len(ops) :
                        (\A m \in (i + 1)..k :
                            ops[m].op = "add" /\ ~IsEvent(ops[m].arg))
                        => (ops[k].post # <<>> /\ Head(ops[k].post) = o.arg)

\* Event, Packet, ExtraData, Packet, Event: the second Event returns the
\* first with two packets and one extra-data.
C8_Witness ==
    /\ Len(ops) = 5
    /\ \A i \in 1..5 : ops[i].op = "add"
    /\ IsEvent(ops[1].arg) /\ IsPacket(ops[2].arg) /\ IsExtraData(ops[3].arg)
    /\ IsPacket(ops[4].arg) /\ IsEvent(ops[5].arg)
    /\ ops[5].ret.packets = << ops[2].arg, ops[4].arg >>
    /\ ops[5].ret.extra = << ops[3].arg >>
    /\ queue = << ops[5].arg >>

\* Whether record r is among the attachments of event e.
Attached(r, e) ==
    \/ \E n \in 1..Len(e.packets) : e.packets[n] = r
    \/ \E n \in 1..Len(e.extra) : e.extra[n] = r

\* C9: adding a record that is not an Event to an empty queue returns
\* nothing, raises nothing and leaves the queue empty; the record is in the
\* packets or extra-data of no Event returned later, and the calls that
\* follow raise nothing.
C9_OrphanDiscard ==
    \A i \in 1..Len(ops) :
        LET o == ops[i]
        IN  (o.op = "add" /\ ~IsEvent(o.arg) /\ o.pre = <<>>) =>
              /\ ~Truthy(o.ret)
              /\ o.err = "ok"
              /\ o.post = <<>>
              /\ \A k \in (i + 1)..Len(ops) :
                    /\ ops[k].err = "ok"
                    /\ ~Attached(o.arg, ops[k].ret)

\* A Packet is discarded, then an Event with a Packet of its own is flushed.
C9_Witness ==
    /\ Len(ops) = 4
    /\ ops[1].op = "add" /\ IsPacket(ops[1].arg) /\ ops[1].pre = <<>>
    /\ ops[2].op = "add" /\ IsEvent(ops[2].arg)
    /\ ops[3].op = "add" /\ IsPacket(ops[3].arg)
    /\ ops[4].op = "flush" /\ ops[4].ret.packets = << ops[3].arg >>

\* The records of a queue, each told by its buffer.
Ids(q) == { q[n].buf : n \in 1..Len(q) }

\* C18: an Event returned by add or by flush is not in the queue after
\* that call, is in the queue before or after no later call, and is
\* returned by no later call: flush changes the lists only of the Event it
\* takes from the queue and returns, so no later call changes them.
C18_ReturnedIsFinal ==
    \A i \in 1..Len(ops) :
        LET e == ops[i].ret
        IN  Truthy(e) =>
              /\ IsEvent(e)
              /\ e.buf \notin Ids(ops[i].post)
              /\ \A k \in (i + 1)..Len(ops) :
                    /\ e.buf \notin (Ids(ops[k].pre) \cup Ids(ops[k].post))
                    /\ ops[k].ret.buf # e.buf
              /\ e.buf \notin Ids(queue)

\* Event, Event, Packet, flush: the first Event is returned by the second
\* add, with no packets, and the flush returns the second with the Packet.
C18_Witness ==
    /\ Len(ops) = 4
    /\ ops[1].op = "add" /\ IsEvent(ops[1].arg)
    /\ ops[2].op = "add" /\ IsEvent(ops[2].arg)
    /\ ops[2].ret = ops[1].arg
    /\ ops[3].op = "add" /\ IsPacket(ops[3].arg)
    /\ ops[4].op = "flush"
    /\ ops[4].ret.buf = ops[2].arg.buf /\ ops[4].ret.packets = << ops[3].arg >>
    /\ queue = <<>>

\* The queue is empty, or an Event followed by records that are not Events.
QueueShape(q) ==
    q = <<>> \/ (IsEvent(q[1]) /\ \A n \in 2..Len(q) : ~IsEvent(q[n]))

\* C19: after any calls of add and flush the queue is empty or holds one
\* Event, at its head, followed by records that are not Events, and no call
\* fails an assertion of flush.
C19_QueueShape ==
    /\ QueueShape(queue)
    /\ \A i \in 1..Len(ops) :
          /\ ops[i].err = "ok"
          /\ QueueShape(ops[i].pre) /\ QueueShape(ops[i].post)

\* A record discarded, an Event flushed, and then an Event with two records
\* behind it in the queue.
C19_Witness ==
    /\ Len(ops) = 6
    /\ ops[1].op = "add" /\ ~IsEvent(ops[1].arg)
    /\ ops[2].op = "add" /\ IsEvent(ops[2].arg)
    /\ ops[3].op = "flush" /\ Truthy(ops[3].ret)
    /\ ops[4].op = "add" /\ IsEvent(ops[4].arg)
    /\ Len(queue) = 3
    /\ queue[1] = ops[4].arg

IsUnknown(r) == r.kind = "Unknown"

\* C20: an Unknown record added while the queue is not empty is appended
\* to the queue and nothing is returned; an Event that add or flush returns
\* has no Unknown record in its packets or its extra-data, and these hold
\* as many records as Packet and ExtraData records were added since the
\* Event was.
C20_UnknownDropped ==
    \A i \in 1..Len(ops) :
        LET o == ops[i]
            j == LastEventAdd(i)
        IN  /\ (o.op = "add" /\ IsUnknown(o.arg) /\ o.pre # <<>>) =>
                  /\ o.post = Append(o.pre, o.arg)
                  /\ ~Truthy(o.ret)
                  /\ o.err = "ok"
            /\ Truthy(o.ret) =>
                  /\ \A n \in 1..Len(o.ret.packets) : IsPacket(o.ret.packets[n])
                  /\ \A n \in 1..Len(o.ret.extra) : IsExtraData(o.ret.extra[n])
                  /\ j > 0
                  /\ Len(o.ret.packets) + Len(o.ret.extra) =
                        Len(AddedBetween(j, i, "Packet"))
                            + Len(AddedBetween(j, i, "ExtraData"))

\* Event, Unknown, Packet, flush: the Unknown is in the queue after its add
\* and the Event is returned with the Packet alone.
C20_Witness ==
    /\ Len(ops) = 4
    /\ ops[1].op = "add" /\ IsEvent(ops[1].arg)
    /\ ops[2].op = "add" /\ IsUnknown(ops[2].arg)
    /\ Len(ops[2].post) = 2
    /\ ops[3].op = "add" /\ IsPacket(ops[3].arg)
    /\ ops[4].op = "flush"
    /\ ops[4].ret.packets = << ops[3].arg >> /\ ops[4].ret.extra = <<>>

-----------------------------------------------------------------------------
(* The spool readers.  A reader is a record of its fields and of where it  *)
(* is in next(): "idle" between calls, and inside a call before each of    *)
(* its system calls, "list" (os.listdir), "open" (open), "read" (the reads *)
(* of read_record) and "sleep" (time.sleep).  File names are numbers, in   *)
(* the lexical order of the names; 0 is None.  Every file of the directory *)
(* matches the prefix.                                                     *)
(*                                                                         *)
(* read_record reads the header and the payload with two reads.  Files     *)
(* only grow, so the two reads return what one read would at the time of   *)
(* the second: the step "read" is read_record as a whole.                  *)

ErrorRec(kind) == [kind |-> kind, rtype |-> 0, buf |-> <<>>, packets |-> <<>>, extra |-> <<>>]

IsError(r) ==
    r.kind \in {"EOFError", "IOError", "ValueError", "struct.error", "AssertionError"}

RECURSIVE SortedSeq(_)
SortedSeq(S) ==
    IF S = {} THEN <<>>
    ELSE LET m == CHOOSE x \in S : \A y \in S : x <= y
         IN  << m >> \o SortedSeq(S \ {m})

\* SpoolRecordReader.get_filenames
get_filenames(d) == SortedSeq(d)

\* list.index
IndexOf(seq, x) == CHOOSE i \in 1..Len(seq) : seq[i] = x /\ \A j \in 1..(i - 1) : seq[j] # x

InSeq(seq, x) == \E i \in 1..Len(seq) : seq[i] = x

\* What a step of a reader does: the reader afterwards, what next()
\* returned if it returned something, the hook call, the file opened and
\* the record read, each a sequence of at most one element.
Result(r, emit, hook, opened, rec) ==
    [r |-> r, emit |-> emit, hook |-> hook, opened |-> opened, rec |-> rec]

Quiet(r) == Result(r, <<>>, <<>>, <<>>, <<>>)

\* The start of SpoolRecordReader._next: "if self.fileobj == None".
Start(r) == IF r.fileobj.name = 0 THEN "list" ELSE "read"

\* next() of the first reader returns value (or raises it).
Return(r, value) ==
    Result([r EXCEPT !.pc = "idle", !.ret = value, !.listing = <<>>, !.target = 0],
           IF Truthy(value) THEN << value >> ELSE <<>>, <<>>, <<>>, <<>>)

Sleep(r) == Quiet([r EXCEPT !.pc = "sleep", !.listing = <<>>, !.target = 0])

\* SpoolRecordReader.next, after _next returned value
RecordNext(r, value) ==
    IF Truthy(value) THEN Return(r, value)
    ELSE IF ~r.tail THEN Return(r, NoneRec)
    ELSE Sleep(r)

\* SpoolEventReader.next returning None, with tail off, when the inner
\* reader yields nothing, without flushing the Aggregator.
EventNextNoFlush(r, value) ==
    IF Truthy(value)
    THEN LET a == add(r.queue, value)
         IN  IF a.err # "ok"
             THEN Return([r EXCEPT !.queue = a.queue], ErrorRec(a.err))
             ELSE IF Truthy(a.event)
             THEN Return([r EXCEPT !.queue = a.queue], a.event)
             ELSE Quiet([r EXCEPT !.queue = a.queue, !.pc = Start(r),
                                  !.listing = <<>>, !.target = 0])
    ELSE IF ~r.tail THEN Return(r, NoneRec)
    ELSE LET f == flush(r.queue)
         IN  IF f.err # "ok"
             THEN Return([r EXCEPT !.queue = f.queue], ErrorRec(f.err))
             ELSE IF Truthy(f.event)
             THEN Return([r EXCEPT !.queue = f.queue], f.event)
             ELSE Sleep([r EXCEPT !.queue = f.queue])

\* SpoolEventReader.next, after self.reader.next() returned value: the
\* inner reader has tail off, its next() is one _next.
EventNext(r, value) ==
    IF Truthy(value)
    THEN LET a == add(r.queue, value)
         IN  IF a.err # "ok"
             THEN Return([r EXCEPT !.queue = a.queue], ErrorRec(a.err))
             ELSE IF Truthy(a.event)
             THEN Return([r EXCEPT !.queue = a.queue], a.event)
             ELSE Quiet([r EXCEPT !.queue = a.queue, !.pc = Start(r),
                                  !.listing = <<>>, !.target = 0])
    ELSE LET f == flush(r.queue)
         IN  IF f.err # "ok"
             THEN Return([r EXCEPT !.queue = f.queue], ErrorRec(f.err))
             ELSE IF Truthy(f.event) \/ ~r.tail
             THEN Return([r EXCEPT !.queue = f.queue], f.event)
             ELSE Sleep([r EXCEPT !.queue = f.queue])

\* _next returns value to the next() of the first reader.
NextReturns(r, value) ==
    IF r.mode = "record" THEN RecordNext(r, value) ELSE EventNext(r, value)

\* open_next moving on from a file that is gone to the file after it in
\* the order of the names instead of to the first file.
OpenNextTargetSkipsAhead(filenames, fileobj) ==
    IF filenames = <<>> THEN 0
    ELSE IF fileobj.name = 0 THEN filenames[1]
    ELSE LET later == { i \in 1..Len(filenames) : filenames[i] > fileobj.name }
         IN  IF later = {} THEN 0
             ELSE filenames[CHOOSE i \in later : \A j \in later : i <= j]

\* open_next from its listing on: which file to open, 0 for none.
OpenNextTarget(filenames, fileobj) ==
    IF filenames = <<>> THEN 0
    ELSE IF fileobj.name = 0 THEN filenames[1]
    ELSE IF ~InSeq(filenames, fileobj.name) THEN filenames[1]
    ELSE LET current_idx == IndexOf(filenames, fileobj.name)
         IN  IF current_idx + 1 <= Len(filenames) THEN filenames[current_idx + 1] ELSE 0

\* A reader that never closes a file.
CloseHandleOmitted(r) == r

\* self.fileobj.close(): closing a closed file does nothing.  nopen counts
\* the handles the reader has open, peak is the most it ever had.
CloseHandle(r) ==
    IF r.fileobj.closed THEN r
    ELSE [r EXCEPT !.fileobj.closed = TRUE, !.nopen = @ - 1]

\* self.fileobj = open(filename, "rb")
OpenHandle(r, filename) ==
    [r EXCEPT !.fileobj = [name |-> filename, pos |-> 0, closed |-> FALSE],
              !.nopen = @ + 1,
              !.peak = IF r.nopen + 1 > @ THEN r.nopen + 1 ELSE @]

\* open_next up to its call of open_file: the listing is taken, and when
\* the current file has a successor it is closed.
ListStep(r, d) ==
    LET filenames == get_filenames(d)
        t == OpenNextTarget(filenames, r.fileobj)
        r1 == IF r.fileobj.name # 0 /\ InSeq(filenames, r.fileobj.name)
              THEN CloseHandle(r) ELSE r
    IN  IF t = 0 THEN NextReturns(r, NoneRec)
        ELSE Quiet([r1 EXCEPT !.pc = "open", !.listing = filenames, !.target = t])

\* open_file with the hook called only on a rollover from another file.
HookCallOnRolloverOnly(r, closed_filename, opened_filename) ==
    IF r.hasHook /\ closed_filename # 0
    THEN << << closed_filename, opened_filename >> >> ELSE <<>>

\* The hook call of open_file.
HookCall(r, closed_filename, opened_filename) ==
    IF r.hasHook THEN << << closed_filename, opened_filename >> >> ELSE <<>>

\* open_file(filename): the file is closed, then the new one opened; open
\* raises IOError when the file is gone.
open_file(r, filename, d) ==
    LET closed_filename == r.fileobj.name
        shut == IF r.fileobj.name # 0 THEN CloseHandle(r) ELSE r
    IN  IF filename \notin d
        THEN Result(shut, <<>>, <<>>, <<>>, <<>>)
        ELSE Result(OpenHandle(shut, filename),
                    <<>>, HookCall(r, closed_filename, filename), << filename >>, <<>>)

\* The rest of open_next and what _next does with its result.
OpenStep(r, d) ==
    LET o == open_file(r, r.target, d)
    IN  IF o.opened = <<>>
        THEN Return(o.r, ErrorRec("IOError"))
        ELSE [o EXCEPT !.r.pc = "read", !.r.listing = <<>>, !.r.target = 0]

\* _next taking EOFError for the end of the file: it goes on to open_next.
ReadStepAdvancesOnEOFError(r, c) ==
    IF r.fileobj.closed THEN Return(r, ErrorRec("ValueError"))
    ELSE LET rr == read_record(c[r.fileobj.name], r.fileobj.pos)
             r1 == [r EXCEPT !.fileobj.pos = rr.pos]
         IN  CASE rr.res = "record" ->
                    [NextReturns(r1, rr.rec) EXCEPT !.rec = << rr.rec >>]
               [] rr.res = "EOFError" -> Quiet([r1 EXCEPT !.pc = "list"])
               [] rr.res = "None" -> Quiet([r1 EXCEPT !.pc = "list"])
               [] OTHER -> Return(r1, ErrorRec(rr.res))

\* self.reader.next() in _next and what _next does with its result.
ReadStep(r, c) ==
    IF r.fileobj.closed THEN Return(r, ErrorRec("ValueError"))
    ELSE LET rr == read_record(c[r.fileobj.name], r.fileobj.pos)
             r1 == [r EXCEPT !.fileobj.pos = rr.pos]
         IN  CASE rr.res = "record" ->
                    [NextReturns(r1, rr.rec) EXCEPT !.rec = << rr.rec >>]
               [] rr.res = "EOFError" -> NextReturns(r1, NoneRec)
               [] rr.res = "None" -> Quiet([r1 EXCEPT !.pc = "list"])
               [] OTHER -> Return(r1, ErrorRec(rr.res))

\* Entering next().
CallStep(r) == Quiet([r EXCEPT !.pc = Start(r), !.calls = @ + 1])

\* After time.sleep the loop of next() runs _next again.
SleepStep(r) == Quiet([r EXCEPT !.pc = Start(r)])

\* SpoolRecordReader.__init__ without its seek to init_offset.
InitSeekOmitted(fileobj, init_offset) == fileobj

\* SpoolRecordReader.__init__: self.fileobj.seek(init_offset)
InitSeek(fileobj, init_offset) == [fileobj EXCEPT !.pos = init_offset]

\* SpoolRecordReader.__init__ falling back, when the resume file is not
\* there, to the first file of the directory at the resume offset.
SpoolInitFallsBack(mode, tail, init_filename, init_offset, d) ==
    LET r0 == [pc |-> "idle", mode |-> mode, tail |-> tail, hasHook |-> TRUE,
               fileobj |-> NoFile, listing |-> <<>>, target |-> 0,
               queue |-> <<>>, ret |-> NoneRec, calls |-> 0,
               nopen |-> 0, peak |-> 0]
        first == IF d = {} THEN 0 ELSE get_filenames(d)[1]
        f == IF init_filename \in d THEN init_filename ELSE first
    IN  IF init_filename # 0 /\ f # 0
        THEN LET o == open_file(r0, f, d)
             IN  [o EXCEPT !.r.fileobj = InitSeek(@, init_offset)]
        ELSE Quiet(r0)

\* SpoolRecordReader.__init__ / SpoolEventReader.__init__
SpoolInit(mode, tail, init_filename, init_offset, d) ==
    LET r0 == [pc |-> "idle", mode |-> mode, tail |-> tail, hasHook |-> TRUE,
               fileobj |-> NoFile, listing |-> <<>>, target |-> 0,
               queue |-> <<>>, ret |-> NoneRec, calls |-> 0,
               nopen |-> 0, peak |-> 0]
    IN  IF init_filename # 0 /\ init_filename \in d
        THEN LET o == open_file(r0, init_filename, d)
             IN  [o EXCEPT !.r.fileobj = InitSeek(@, init_offset)]
        ELSE Quiet(r0)

\* SpoolRecordReader.tell with the offset of the start of the file.
tellStartOfFile(r) ==
    IF r.fileobj.name # 0 THEN << r.fileobj.name, 0 >> ELSE << 0, 0 >>

\* SpoolRecordReader.tell: (filename, offset), (None, None) without a file.
tell(r) ==
    IF r.fileobj.name # 0 THEN << r.fileobj.name, r.fileobj.pos >> ELSE << 0, 0 >>

-----------------------------------------------------------------------------
(* The steps of the first reader.                                     *)

Apply(s) ==
    /\ rd' = s.r
    /\ out' = out \o s.emit
    /\ hooks' = hooks \o s.hook
    /\ opens' = opens \o s.opened
    /\ seen' = seen \o s.rec
    /\ ctor' = ctor

RdCall ==
    /\ rd.pc = "idle"
    /\ rd.calls < MaxCalls
    /\ Apply(CallStep(rd))
    /\ UNCHANGED <<fsVars, forkVars, streamVars, aggVars, fileVars>>

RdList ==
    /\ rd.pc = "list"
    /\ Apply(ListStep(rd, dir))
    /\ UNCHANGED <<fsVars, forkVars, streamVars, aggVars, fileVars>>

RdOpen ==
    /\ rd.pc = "open"
    /\ Apply(OpenStep(rd, dir))
    /\ UNCHANGED <<fsVars, forkVars, streamVars, aggVars, fileVars>>

RdRead ==
    /\ rd.pc = "read"
    /\ Apply(ReadStep(rd, content))
    /\ UNCHANGED <<fsVars, forkVars, streamVars, aggVars, fileVars>>

RdSleep ==
    /\ rd.pc = "sleep"
    /\ Apply(SleepStep(rd))
    /\ UNCHANGED <<fsVars, forkVars, streamVars, aggVars, fileVars>>

-----------------------------------------------------------------------------
(* The sensor writing the spool.                                           *)

\* The types of the records written.  A record reader treats every record
\* alike, so under a record reader the sensor writes Events only.
SpoolTypes == IF rd.mode = "record" THEN {EVENT} ELSE {EVENT, PACKET}

\* The sensor creates the next file of the spool.
Rotate ==
    /\ wpend = <<>>
    /\ Len(content) < MaxFiles
    /\ content' = Append(content, <<>>)
    /\ dir' = dir \cup {Len(content) + 1}
    /\ UNCHANGED <<wpend, nwritten, readerVars, forkVars, streamVars, aggVars, fileVars>>

\* The sensor appends a whole record to the newest file.
WriteRecord ==
    /\ wpend = <<>>
    /\ content # <<>>
    /\ nwritten < MaxRecs
    /\ \E t \in SpoolTypes :
          content' = [content EXCEPT ![Len(content)] = @ \o Written(t, nwritten + 1)]
    /\ nwritten' = nwritten + 1
    /\ UNCHANGED <<dir, wpend, readerVars, forkVars, streamVars, aggVars, fileVars>>

\* The records of a file, whole records only.
RECURSIVE RecordsFrom(_, _)
RecordsFrom(data, pos) ==
    LET rr == read_record(data, pos)
    IN  IF rr.res = "record" THEN << rr.rec >> \o RecordsFrom(data, rr.pos) ELSE <<>>

\* The records of the files in the order of their names.
AllRecords == Flatten([f \in 1..Len(content) |-> RecordsFrom(content[f], 0)])

-----------------------------------------------------------------------------
(* A reader on a spool that a sensor appends whole records to.             *)

InitAppend ==
    /\ content = <<>> /\ dir = {} /\ wpend = <<>> /\ nwritten = 0
    /\ \E mode \in {"record", "event"}, tail \in BOOLEAN :
          rd = SpoolInit(mode, tail, 0, 0, {}).r
    /\ out = <<>> /\ hooks = <<>> /\ opens = <<>> /\ seen = <<>>
    /\ ctor = NoCtor
    /\ ForkIdle /\ StreamIdle /\ AggIdle /\ FileIdle

NextAppend ==
    \/ RdCall \/ RdList \/ RdOpen \/ RdRead \/ RdSleep
    \/ Rotate \/ WriteRecord

SpecAppend == InitAppend /\ [][NextAppend]_vars

\* The Event record that record number i of the stream belongs to: the
\* last Event record before it, 0 if there is none.
OwnerOf(recs, i) ==
    LET js == { j \in 1..(i - 1) : IsEvent(recs[j]) }
    IN  IF js = {} THEN 0 ELSE CHOOSE j \in js : \A k \in js : k <= j

\* C1: once an Event has been returned by the event reader, every Packet
\* and ExtraData record the reader reads that follows its Event record in
\* the stream before the next Event record is in its packets or extra-data:
\* no record of a returned Event is read later and left out of it.
C1_NoPartialEvent ==
    rd.mode = "event" =>
    \A i \in 1..Len(AllRecords) :
        LET x == AllRecords[i]
            j == OwnerOf(AllRecords, i)
        IN  (/\ (IsPacket(x) \/ IsExtraData(x))
             /\ InSeq(seen, x)
             /\ j > 0)
            => \A n \in 1..Len(out) :
                  out[n].buf = AllRecords[j].buf => Attached(x, out[n])

\* C2: the records returned by SpoolRecordReader.next are a prefix of the
\* records of the files in the order of their names.
C2_NoSkipNoDup ==
    rd.mode = "record" => IsPrefix(out, AllRecords)


-----------------------------------------------------------------------------
(* Spools and file lists that do not change: some whole records spread     *)
(* over the files in order, and possibly one file that ends in the first   *)
(* bytes of one more record (part of its header, its header alone, or its  *)
(* header and part of its payload).                                        *)

StaticTypes == {EVENT, PACKET}

PartialKeep == {4, HDR_LEN, 20}

Monotone(f, n) == \A i \in 1..n : \A j \in i..n : f[i] <= f[j]

\* File number f of nf: the records assigned to it, and the bytes kept of a
\* further record when f is the file cut short.
StaticFile(f, n, ts, fileOf, cut, keep) ==
    LET F[i \in 0..n] ==
            IF i = 0 THEN <<>>
            ELSE IF fileOf[i] = f THEN F[i - 1] \o Written(ts[i], i) ELSE F[i - 1]
    IN  F[n] \o (IF cut = f THEN SubSeq(Written(EVENT, n + 1), 1, keep) ELSE <<>>)

StaticContents(minFiles) ==
    UNION { UNION { UNION {
        { [f \in 1..nf |-> StaticFile(f, n, ts, fileOf, cut[1], cut[2])] :
            cut \in ({ << 0, 0 >> } \cup ((1..nf) \X PartialKeep)) } :
          fileOf \in { g \in [1..n -> 1..nf] : Monotone(g, n) } } :
        ts \in [1..n -> StaticTypes] } :
      n \in 0..StaticRecs, nf \in minFiles..StaticFiles }

-----------------------------------------------------------------------------
(* A spool that does not change, its reader, and a second reader           *)
(* constructed from what tell() of the first returns between two calls.    *)

\* One step of a reader, whatever it is about to do.
Step(r, d, c) ==
    CASE r.pc = "idle"  -> CallStep(r)
      [] r.pc = "list"  -> ListStep(r, d)
      [] r.pc = "open"  -> OpenStep(r, d)
      [] r.pc = "read"  -> ReadStep(r, c)
      [] r.pc = "sleep" -> SleepStep(r)

InitResume ==
    /\ content \in StaticContents(0)
    /\ dir = 1..Len(content)
    /\ wpend = <<>> /\ nwritten = 0
    /\ \E mode \in {"record", "event"} : rd = SpoolInit(mode, FALSE, 0, 0, dir).r
    /\ out = <<>> /\ hooks = <<>> /\ opens = <<>> /\ seen = <<>>
    /\ ctor = NoCtor
    /\ ForkIdle /\ StreamIdle /\ AggIdle /\ FileIdle

\* cursor = reader.tell(); fresh = reader's class(directory, prefix, *cursor)
Fork ==
    /\ ~forked
    /\ rd.pc = "idle"
    /\ LET cursor == tell(rd)
       IN  rd2' = SpoolInit(rd.mode, rd.tail, cursor[1], cursor[2], dir).r
    /\ out2' = <<>>
    /\ outAt' = Len(out)
    /\ forked' = TRUE
    /\ UNCHANGED <<fsVars, readerVars, streamVars, aggVars, fileVars>>

\* A step of the fresh reader.
Rd2Step ==
    /\ forked
    /\ rd2.pc = "idle" => rd2.calls < MaxCalls
    /\ LET s == Step(rd2, dir, content)
       IN  /\ rd2' = s.r
           /\ out2' = out2 \o s.emit
    /\ UNCHANGED <<outAt, forked, fsVars, readerVars, streamVars, aggVars, fileVars>>

NextResume == RdCall \/ RdList \/ RdOpen \/ RdRead \/ Fork \/ Rd2Step

SpecResume == InitResume /\ [][NextResume]_vars

\* What the first reader returned after the second was constructed.
Remaining == SubSeq(out, outAt + 1, Len(out))

\* The reader's last call returned end-of-stream.
Ended(r) == r.pc = "idle" /\ r.calls > 0 /\ ~Truthy(r.ret)

SameRemaining ==
    /\ IsPrefix(Remaining, out2) \/ IsPrefix(out2, Remaining)
    /\ (Ended(rd) /\ Ended(rd2)) => Remaining = out2

\* C3: a fresh SpoolRecordReader constructed with the (filename, offset) of
\* tell() returns the records the original reader goes on to return: at
\* every moment one of the two sequences is a prefix of the other, and when
\* both readers have reached end-of-stream the two are equal.
C3_RecordResume == (forked /\ rd.mode = "record") => SameRemaining

\* The fresh reader was constructed mid-stream, in one file, and both have
\* read the rest, into the next file.
C3_Witness ==
    /\ forked /\ rd.mode = "record"
    /\ outAt >= 1
    /\ Ended(rd) /\ Ended(rd2)
    /\ Len(out2) >= 1
    /\ rd2.fileobj.name = 2

\* C4: a fresh SpoolEventReader constructed with the (filename, offset) of
\* tell() returns the Events the original reader goes on to return.
C4_EventResume == (forked /\ rd.mode = "event") => SameRemaining


-----------------------------------------------------------------------------
(* FileRecordReader and FileEventReader over a list of files that do not   *)
(* change.  The files are named 1, 2, ... in the order of the list.        *)

\* FileRecordReader.__init__ / FileEventReader.__init__
FileInit(mode, files) ==
    OpenHandle([pc |-> "idle", mode |-> mode, files |-> Tail(files),
                fileobj |-> NoFile, queue |-> <<>>, calls |-> 0,
                nopen |-> 0, peak |-> 0],
               Head(files))

\* The end of the loop of FileRecordReader.next: the file is closed and the
\* next one of the list opened.
OpenNextFile(f) ==
    [OpenHandle(CloseHandle(f), Head(f.files)) EXCEPT !.files = Tail(f.files)]

\* FileRecordReader.next with an "if" for its "while": at the end of a file
\* the next one is opened and the call returns.
FRR_nextNoLoop(f, c) ==
    LET rr == read_record(c[f.fileobj.name], f.fileobj.pos)
        f1 == [f EXCEPT !.fileobj.pos = rr.pos]
    IN  CASE rr.res = "record" -> [f |-> f1, ret |-> rr.rec]
          [] rr.res = "None" ->
                IF f1.files = <<>> THEN [f |-> f1, ret |-> NoneRec]
                ELSE [f |-> OpenNextFile(f1), ret |-> NoneRec]
          [] OTHER -> [f |-> f1, ret |-> ErrorRec(rr.res)]

\* FileRecordReader.next taking EOFError for the end of the file.
RECURSIVE FRR_nextSkipsIncomplete(_, _)
FRR_nextSkipsIncomplete(f, c) ==
    LET rr == read_record(c[f.fileobj.name], f.fileobj.pos)
        f1 == [f EXCEPT !.fileobj.pos = rr.pos]
    IN  CASE rr.res = "record" -> [f |-> f1, ret |-> rr.rec]
          [] rr.res \in {"None", "EOFError"} ->
                IF f1.files = <<>> THEN [f |-> f1, ret |-> NoneRec]
                ELSE FRR_nextSkipsIncomplete(OpenNextFile(f1), c)
          [] OTHER -> [f |-> f1, ret |-> ErrorRec(rr.res)]

\* FileRecordReader.next: ret is the record, None, or the exception raised.
RECURSIVE FRR_next(_, _)
FRR_next(f, c) ==
    LET rr == read_record(c[f.fileobj.name], f.fileobj.pos)
        f1 == [f EXCEPT !.fileobj.pos = rr.pos]
    IN  CASE rr.res = "record" -> [f |-> f1, ret |-> rr.rec]
          [] rr.res = "None" ->
                IF f1.files = <<>> THEN [f |-> f1, ret |-> NoneRec]
                ELSE FRR_next(OpenNextFile(f1), c)
          [] OTHER -> [f |-> f1, ret |-> ErrorRec(rr.res)]

\* FileEventReader.next returning None at the end of the files without
\* flushing the Aggregator.
RECURSIVE FER_nextNoFlush(_, _)
FER_nextNoFlush(f, c) ==
    LET x == FRR_next(f, c)
    IN  IF IsError(x.ret) THEN x
        ELSE IF ~Truthy(x.ret) THEN [f |-> x.f, ret |-> NoneRec]
        ELSE LET a == add(x.f.queue, x.ret)
                 f2 == [x.f EXCEPT !.queue = a.queue]
             IN  IF a.err # "ok" THEN [f |-> f2, ret |-> ErrorRec(a.err)]
                 ELSE IF Truthy(a.event) THEN [f |-> f2, ret |-> a.event]
                 ELSE FER_nextNoFlush(f2, c)

\* FileEventReader.next
RECURSIVE FER_next(_, _)
FER_next(f, c) ==
    LET x == FRR_next(f, c)
    IN  IF IsError(x.ret) THEN x
        ELSE IF ~Truthy(x.ret)
        THEN LET fl == flush(x.f.queue)
             IN  [f |-> [x.f EXCEPT !.queue = fl.queue],
                  ret |-> IF fl.err = "ok" THEN fl.event ELSE ErrorRec(fl.err)]
        ELSE LET a == add(x.f.queue, x.ret)
                 f2 == [x.f EXCEPT !.queue = a.queue]
             IN  IF a.err # "ok" THEN [f |-> f2, ret |-> ErrorRec(a.err)]
                 ELSE IF Truthy(a.event) THEN [f |-> f2, ret |-> a.event]
                 ELSE FER_next(f2, c)

InitFile ==
    /\ content \in StaticContents(1)
    /\ dir = 1..Len(content)
    /\ wpend = <<>> /\ nwritten = 0
    /\ \E mode \in {"record", "event"} :
          fr = FileInit(mode, [i \in 1..Len(content) |-> i])
    /\ fout = <<>>
    /\ ReaderIdle /\ ForkIdle /\ StreamIdle /\ AggIdle

\* reader.next() of a FileRecordReader
FRNext ==
    /\ fr.mode = "record"
    /\ fr.calls < MaxFileCalls
    /\ LET x == FRR_next(fr, content)
       IN  /\ fr' = [x.f EXCEPT !.calls = @ + 1]
           /\ fout' = Append(fout, x.ret)
    /\ UNCHANGED <<fsVars, readerVars, forkVars, streamVars, aggVars>>

\* reader.next() of a FileEventReader
FENext ==
    /\ fr.mode = "event"
    /\ fr.calls < MaxFileCalls
    /\ LET x == FER_next(fr, content)
       IN  /\ fr' = [x.f EXCEPT !.calls = @ + 1]
           /\ fout' = Append(fout, x.ret)
    /\ UNCHANGED <<fsVars, readerVars, forkVars, streamVars, aggVars>>

NextFile == FRNext \/ FENext

SpecFile == InitFile /\ [][NextFile]_vars

\* Where the whole records of a file end.
RECURSIVE RecordsEnd(_, _)
RecordsEnd(data, pos) ==
    LET rr == read_record(data, pos)
    IN  IF rr.res = "record" THEN RecordsEnd(data, rr.pos) ELSE pos

EndsAtBoundary(data) == RecordsEnd(data, 0) = Len(data)

\* The file that ends in an incomplete record, 0 if there is none.
CutFile ==
    LET fs == { f \in 1..Len(content) : ~EndsAtBoundary(content[f]) }
    IN  IF fs = {} THEN 0 ELSE CHOOSE f \in fs : TRUE

\* C10: over files that each end at a record boundary, the calls of
\* FileRecordReader.next return the records of the files in the order of
\* the list, one per call, and every call after the last record returns
\* None.
C10_FileChain ==
    (fr.mode = "record" /\ \A f \in 1..Len(content) : EndsAtBoundary(content[f])) =>
    \A i \in 1..Len(fout) :
        fout[i] = IF i <= Len(AllRecords) THEN AllRecords[i] ELSE NoneRec

\* Two files of one record each: the two records, then None twice.
C10_Witness ==
    /\ fr.mode = "record"
    /\ Len(content) = 2
    /\ Len(RecordsFrom(content[1], 0)) = 1 /\ EndsAtBoundary(content[1])
    /\ Len(RecordsFrom(content[2], 0)) = 1 /\ EndsAtBoundary(content[2])
    /\ Len(fout) = 4
    /\ Truthy(fout[1]) /\ Truthy(fout[2])
    /\ ~Truthy(fout[3]) /\ ~Truthy(fout[4])

\* The Events of a sequence of records: each Event record with the Packet
\* records and the ExtraData records that follow it up to the next Event
\* record, in order.
EventsOf(recs) ==
    LET F[i \in 0..Len(recs)] ==
            IF i = 0 THEN <<>>
            ELSE LET x == recs[i]
                     n == Len(F[i - 1])
                 IN  IF IsEvent(x) THEN Append(F[i - 1], x)
                     ELSE IF n = 0 THEN F[i - 1]
                     ELSE IF IsPacket(x)
                     THEN [F[i - 1] EXCEPT ![n].packets = Append(@, x)]
                     ELSE IF IsExtraData(x)
                     THEN [F[i - 1] EXCEPT ![n].extra = Append(@, x)]
                     ELSE F[i - 1]
    IN  F[Len(recs)]

\* The reader has read its last file to the end.
AtEndOfFiles(f) ==
    f.files = <<>> /\ f.fileobj.pos = Len(content[f.fileobj.name])

\* C11: over files that each end at a record boundary and whose records
\* start with an Event, the calls of FileEventReader.next return one Event
\* per Event record, in the order of the records, each with the Packet and
\* ExtraData records that follow it (those of a later file included); the
\* last Event is returned by the call that reaches the end of the last file
\* and leaves the queue empty, and every call after it returns None.
C11_EventChain ==
    (/\ fr.mode = "event"
     /\ \A f \in 1..Len(content) : EndsAtBoundary(content[f])
     /\ AllRecords # <<>> /\ IsEvent(AllRecords[1])) =>
    LET expected == EventsOf(AllRecords)
    IN  /\ \A i \in 1..Len(fout) :
              fout[i] = IF i <= Len(expected) THEN expected[i] ELSE NoneRec
        /\ Len(fout) >= Len(expected) => (AtEndOfFiles(fr) /\ fr.queue = <<>>)
        /\ (fout # <<>> /\ Len(fout) < Len(expected)) => fr.queue # <<>>

\* An Event in the first file and its Packet in the second: the first call
\* returns the Event with the Packet, the two calls after it return None.
C11_Witness ==
    /\ fr.mode = "event"
    /\ Len(content) = 2
    /\ Len(RecordsFrom(content[1], 0)) = 1 /\ EndsAtBoundary(content[1])
    /\ Len(RecordsFrom(content[2], 0)) = 1 /\ EndsAtBoundary(content[2])
    /\ IsEvent(AllRecords[1]) /\ IsPacket(AllRecords[2])
    /\ Len(fout) = 3
    /\ fout[1].packets = << AllRecords[2] >>
    /\ ~Truthy(fout[2]) /\ ~Truthy(fout[3])

\* C16: when a file of a FileRecordReader other than the last ends in an
\* incomplete record, the calls of next() return the whole records of the
\* files up to and including that file, and every call after them raises
\* EOFError: the reader stays on that file, open, at the start of the
\* incomplete record, with the later files still in its list, and returns
\* no record of a later file.
C16_IncompleteNotSkipped ==
    (fr.mode = "record" /\ CutFile # 0 /\ CutFile < Len(content)) =>
    LET f == CutFile
        before == Flatten([g \in 1..f |-> RecordsFrom(content[g], 0)])
    IN  /\ \A i \in 1..Len(fout) :
              fout[i] = IF i <= Len(before) THEN before[i] ELSE ErrorRec("EOFError")
        /\ Len(fout) > Len(before) =>
              /\ fr.fileobj = [name |-> f, pos |-> RecordsEnd(content[f], 0),
                               closed |-> FALSE]
              /\ fr.files = [k \in 1..(Len(content) - f) |-> f + k]

\* The first of two files holds a record and part of another, the second
\* holds a record: the first call returns the record of the first file,
\* the two calls after it raise EOFError.
C16_Witness ==
    /\ fr.mode = "record"
    /\ Len(content) = 2
    /\ CutFile = 1
    /\ Len(RecordsFrom(content[1], 0)) = 1
    /\ Len(RecordsFrom(content[2], 0)) = 1
    /\ Len(fout) = 3
    /\ fout[1] = Head(RecordsFrom(content[1], 0))
    /\ fout[2] = ErrorRec("EOFError") /\ fout[3] = ErrorRec("EOFError")

-----------------------------------------------------------------------------
(* A SpoolRecordReader on a spool whose sensor may be in the middle of a   *)
(* record and whose older files are deleted.  When the reader is           *)
(* constructed the spool is empty or holds one file with one record, and   *)
(* the reader is given no resume point, that file, or a file that is not   *)
(* there.                                                                  *)

\* The sensor appends the first bytes of a record to the newest file.
WritePartial ==
    /\ wpend = <<>>
    /\ content # <<>>
    /\ nwritten < MaxRecs
    /\ \E t \in SpoolTypes, k \in PartialKeep :
          LET bytes == Written(t, nwritten + 1)
          IN  /\ content' = [content EXCEPT ![Len(content)] = @ \o SubSeq(bytes, 1, k)]
              /\ wpend' = SubSeq(bytes, k + 1, Len(bytes))
    /\ nwritten' = nwritten + 1
    /\ UNCHANGED <<dir, readerVars, forkVars, streamVars, aggVars, fileVars>>

\* The sensor appends the rest of the record.
WriteRest ==
    /\ wpend # <<>>
    /\ content' = [content EXCEPT ![Len(content)] = @ \o wpend]
    /\ wpend' = <<>>
    /\ UNCHANGED <<dir, nwritten, readerVars, forkVars, streamVars, aggVars, fileVars>>

\* A file other than the newest is removed from the directory; a handle
\* open on it still reads it.
Delete ==
    /\ \E f \in dir \ {Len(content)} : dir' = dir \ {f}
    /\ UNCHANGED <<content, wpend, nwritten, readerVars, forkVars, streamVars,
                   aggVars, fileVars>>

InitSpool ==
    /\ \E n \in {0, 1} :
          /\ content = [f \in 1..n |-> Written(EVENT, 1)]
          /\ dir = 1..n
          /\ nwritten = n
    /\ wpend = <<>>
    /\ \E tail \in BOOLEAN, init_filename \in {0, 1, 2},
          init_offset \in {0, Len(Written(EVENT, 1))} :
          /\ init_filename = 0 => init_offset = 0
          /\ LET s == SpoolInit("record", tail, init_filename, init_offset, dir)
             IN  /\ rd = s.r
                 /\ hooks = s.hook
                 /\ opens = s.opened
    /\ out = <<>> /\ seen = <<>>
    /\ ctor = NoCtor
    /\ ForkIdle /\ StreamIdle /\ AggIdle /\ FileIdle

NextSpool ==
    \/ RdCall \/ RdList \/ RdOpen \/ RdRead \/ RdSleep
    \/ Rotate \/ WriteRecord \/ WritePartial \/ WriteRest \/ Delete

Spec == InitSpool /\ [][NextSpool]_vars

\* The file open_next is to open given the listing d, 0 for none: the first
\* one when no file is open or the open one is not listed, else the one
\* that follows the open one.
Successor(d, cur) ==
    LET later == { n \in d : n > cur }
    IN  IF d = {} THEN 0
        ELSE IF cur = 0 \/ cur \notin d THEN CHOOSE n \in d : \A m \in d : n <= m
        ELSE IF later = {} THEN 0
        ELSE CHOOSE n \in later : \A m \in later : n <= m

\* C6: open_next, given the sorted listing of the directory, goes on to
\* open the first file when no file is open or when the open file is not
\* listed, and the file that follows the open one when that is listed and
\* has a successor; with the open file last in the listing, or with an
\* empty listing, it changes nothing and no file is opened.  The file it
\* goes on to open becomes the reader's file, read from its start.
C6_OpenNext ==
    [][ /\ (rd.pc = "list" /\ rd' # rd) =>
              LET t == Successor(dir, rd.fileobj.name)
              IN  IF t = 0
                  THEN /\ rd'.fileobj = rd.fileobj
                       /\ rd'.pc \in {"idle", "sleep"}
                       /\ rd'.pc = "idle" => ~Truthy(rd'.ret)
                       /\ hooks' = hooks /\ opens' = opens
                  ELSE /\ rd'.pc = "open"
                       /\ rd'.target = t
        /\ (rd.pc = "open" /\ rd' # rd /\ rd.target \in dir) =>
              /\ rd'.fileobj = [name |-> rd.target, pos |-> 0, closed |-> FALSE]
              /\ opens' = Append(opens, rd.target)
      ]_vars

\* The open file is gone from the listing, which holds an older and a newer
\* file: the reader is about to open the older one.
C6_Witness ==
    /\ rd.pc = "open"
    /\ rd.fileobj.name = 2
    /\ rd.listing = << 1, 3 >>
    /\ rd.target = 1

\* The reader has the last file of the listing open and open_next opened
\* nothing.
C6_WitnessLast ==
    /\ rd.pc = "idle"
    /\ rd.calls > 0
    /\ rd.fileobj.name = 1
    /\ dir = {1}
    /\ out = <<>>

\* C7: the rollover hook is called once for every file opened and by
\* nothing else, with the file that was open before (None for the first
\* file opened, the resume file included) and the file opened, which is the
\* reader's file from then on.
C7_RolloverHook ==
    /\ Len(hooks) = Len(opens)
    /\ \A i \in 1..Len(hooks) :
          /\ hooks[i][2] = opens[i]
          /\ hooks[i][1] = IF i = 1 THEN 0 ELSE opens[i - 1]
    /\ rd.fileobj.name = IF opens = <<>> THEN 0 ELSE opens[Len(opens)]

\* The reader read file 1 to its end, file 2 appeared, and a later call
\* moved to file 2 and returned a record of it: the hook was called with
\* (None, 1) and then once with (1, 2).
C7_Witness ==
    /\ hooks = << << 0, 1 >>, << 1, 2 >> >>
    /\ rd.pc = "idle"
    /\ rd.fileobj.name = 2
    /\ rd.calls >= 2
    /\ Len(out) >= 1

-----------------------------------------------------------------------------
(* The file handles of a reader: a SpoolRecordReader on the spool above,   *)
(* or a file reader over its list of files.                                *)

InitHandles == InitSpool \/ InitFile

NextHandles ==
    \/ (rd.pc # "off" /\ NextSpool)
    \/ (fr.pc # "off" /\ NextFile)

SpecHandles == InitHandles /\ [][NextHandles]_vars

\* The reader never had two handles open, and the one it has open, if any,
\* is that of its current file.
OneHandle(r) ==
    r.pc # "off" =>
        /\ r.peak <= 1
        /\ r.nopen = (IF r.fileobj.name # 0 /\ ~r.fileobj.closed THEN 1 ELSE 0)

\* C12: a reader (FileRecordReader or SpoolRecordReader) never has more
\* than one file handle open: whenever it opens a file, at construction, on
\* rotation or on the restart after its file is gone from the directory,
\* the handle it had is closed first, and the only handle it has open is
\* that of its current file.
C12_OneHandle == OneHandle(rd) /\ OneHandle(fr)

\* The reader moved from file 1 to file 2, file 2 was deleted, and the
\* reader went back to file 1: three files opened, one handle open.
C12_Witness ==
    /\ rd.pc # "off"
    /\ opens = << 1, 2, 1 >>
    /\ rd.nopen = 1
    /\ rd.fileobj = [name |-> 1, pos |-> 0, closed |-> FALSE]

-----------------------------------------------------------------------------
(* A SpoolRecordReader, with tail on or off, on a spool that a sensor      *)
(* appends to, a whole record or part of one at a time.  No file is        *)
(* deleted.  The reader is a sequential program: inside a call of next()   *)
(* each of its steps is taken sooner or later, and its caller calls next() *)
(* again after each return (a reader with tail on can always be called     *)
(* again: MaxCalls is above the number of records it can return, MaxRecs). *)
(* Nothing is assumed of the sensor.                                       *)

InitTail ==
    /\ content = <<>> /\ dir = {} /\ wpend = <<>> /\ nwritten = 0
    /\ \E tail \in BOOLEAN : rd = SpoolInit("record", tail, 0, 0, {}).r
    /\ out = <<>> /\ hooks = <<>> /\ opens = <<>> /\ seen = <<>>
    /\ ctor = NoCtor
    /\ ForkIdle /\ StreamIdle /\ AggIdle /\ FileIdle

NextTail ==
    \/ RdCall \/ RdList \/ RdOpen \/ RdRead \/ RdSleep
    \/ Rotate \/ WriteRecord \/ WritePartial \/ WriteRest

SpecTail ==
    /\ InitTail /\ [][NextTail]_vars
    /\ WF_vars(RdCall)
    /\ WF_vars(RdList) /\ WF_vars(RdOpen) /\ WF_vars(RdRead) /\ WF_vars(RdSleep)

\* Record number n is whole in file f at offset p.
RecordAt(f, p, n) ==
    /\ f \in 1..Len(content)
    /\ LET rr == read_record(content[f], p)
       IN  rr.res = "record" /\ rr.rec.buf[1] = n

\* Record number n is whole at the position of the reader: at its offset in
\* its file, or at the start of the next file when it is at the end of its
\* own (of the first file when it has none).
AtPosition(n) ==
    IF rd.fileobj.name = 0
    THEN dir # {} /\ RecordAt(CHOOSE f \in dir : \A g \in dir : f <= g, 0, n)
    ELSE /\ ~rd.fileobj.closed
         /\ \/ RecordAt(rd.fileobj.name, rd.fileobj.pos, n)
            \/ /\ rd.fileobj.pos = Len(content[rd.fileobj.name])
               /\ rd.fileobj.name + 1 \in dir
               /\ RecordAt(rd.fileobj.name + 1, 0, n)

Returned(n) == \E i \in 1..Len(out) : out[i].buf[1] = n

\* With tail off next() never sleeps: it returns after one _next.  With
\* tail on a call that has returned has returned a record.
EndOfStreamOnlyWithoutTail ==
    /\ ~rd.tail => rd.pc # "sleep"
    /\ (rd.tail /\ rd.pc = "idle" /\ rd.calls > 0) =>
          (Truthy(rd.ret) /\ ~IsError(rd.ret))
    /\ (~rd.tail /\ rd.pc = "idle" /\ rd.calls > 0) => ~IsError(rd.ret)

\* C13: SpoolRecordReader.next with tail off returns end-of-stream after a
\* single _next that yields nothing; with tail on it never returns
\* end-of-stream, and whenever a whole record is at the position of the
\* reader (in its file, or at the start of the next file when it is at the
\* end of its own), next() eventually returns that record.
C13_TailPolling ==
    /\ []EndOfStreamOnlyWithoutTail
    /\ \A n \in 1..MaxRecs :
          (rd.tail /\ AtPosition(n)) ~> Returned(n)

-----------------------------------------------------------------------------
(* A SpoolRecordReader or a SpoolEventReader on a spool left by a sensor   *)
(* that stopped: whole records, and possibly one file, the last or an      *)
(* earlier one, that ends in the first bytes of a record.  The rest of     *)
(* that record may be appended later.                                      *)

InitPartial ==
    /\ content \in StaticContents(1)
    /\ dir = 1..Len(content)
    /\ wpend = <<>> /\ nwritten = 0
    /\ \E mode \in {"record", "event"}, tail \in BOOLEAN :
          rd = SpoolInit(mode, tail, 0, 0, dir).r
    /\ out = <<>> /\ hooks = <<>> /\ opens = <<>> /\ seen = <<>>
    /\ ctor = NoCtor
    /\ ForkIdle /\ StreamIdle /\ AggIdle /\ FileIdle

\* The rest of the incomplete record is appended to its file.
CompleteRecord ==
    /\ nwritten = 0
    /\ CutFile # 0
    /\ LET f == CutFile
           whole == Written(EVENT, Len(AllRecords) + 1)
           kept == Len(content[f]) - RecordsEnd(content[f], 0)
       IN  content' = [content EXCEPT ![f] = @ \o SubSeq(whole, kept + 1, Len(whole))]
    /\ nwritten' = 1
    /\ UNCHANGED <<dir, wpend, readerVars, forkVars, streamVars, aggVars, fileVars>>

NextPartial ==
    \/ RdCall \/ RdList \/ RdOpen \/ RdRead \/ RdSleep
    \/ CompleteRecord

SpecPartial == InitPartial /\ [][NextPartial]_vars

\* The record reader is about to read, with an open file.
Reading == rd.mode = "record" /\ rd.pc = "read" /\ ~rd.fileobj.closed

\* C15: when the record reader reads its file at an incomplete record, _next
\* returns nothing and raises nothing (next() returns None with tail off
\* and sleeps with tail on), the same file stays open at the same offset
\* and no other file is opened, later files or not; when it reads at a
\* whole record, the completed one included, next() returns that record.
C15_IncompleteIsNothingYet ==
    [][ /\ (/\ Reading
            /\ Incomplete(content[rd.fileobj.name], rd.fileobj.pos)
            /\ rd' # rd) =>
              /\ rd'.fileobj = rd.fileobj
              /\ rd'.pc = (IF rd.tail THEN "sleep" ELSE "idle")
              /\ rd'.pc = "idle" => rd'.ret = NoneRec
              /\ out' = out /\ opens' = opens /\ hooks' = hooks
        /\ (/\ Reading
            /\ RecordsFrom(content[rd.fileobj.name], rd.fileobj.pos) # <<>>
            /\ rd' # rd) =>
              /\ out' = Append(out, Head(RecordsFrom(content[rd.fileobj.name],
                                                     rd.fileobj.pos)))
              /\ rd'.pc = "idle"
              /\ rd'.fileobj.name = rd.fileobj.name
              /\ opens' = opens
      ]_vars

\* The first file ended in an incomplete record and a second file holds a
\* record: the first call returned nothing, the record was completed, and
\* the second call returned it, from the first file.
C15_Witness ==
    /\ rd.mode = "record"
    /\ Len(content) = 2
    /\ RecordsFrom(content[2], 0) # <<>>
    /\ nwritten = 1
    /\ rd.pc = "idle" /\ rd.calls = 2
    /\ opens = << 1 >>
    /\ rd.fileobj.name = 1
    /\ Len(RecordsFrom(content[1], 0)) = 1
    /\ out = RecordsFrom(content[1], 0)
    /\ seen = out

\* The last call of next() has returned.
Returned1 == rd.pc = "idle" /\ rd.calls > 0

\* C17: SpoolEventReader.next flushes its Aggregator whenever the inner
\* reader yields nothing.  With tail off, when next() has returned None
\* the queue of the Aggregator is empty.  With tail on, next() sleeps only
\* with the queue empty and returns only an Event, never None.  Whatever
\* next() returns that is not None is an Event.
C17_FlushOnNothing ==
    rd.mode = "event" =>
        /\ (Returned1 /\ ~Truthy(rd.ret)) => (~rd.tail /\ rd.queue = <<>>)
        /\ (Returned1 /\ rd.tail) => IsEvent(rd.ret)
        /\ rd.pc = "sleep" => (rd.tail /\ rd.queue = <<>>)
        /\ \A i \in 1..Len(out) : IsEvent(out[i])

\* Tail off, an Event, its Packet and part of a record: the first call
\* returned the Event with its Packet by the flush, the second returned
\* None, and the queue is empty.
C17_Witness ==
    /\ rd.mode = "event" /\ ~rd.tail
    /\ CutFile # 0
    /\ Returned1 /\ rd.calls = 2
    /\ ~Truthy(rd.ret)
    /\ Len(out) = 1 /\ Len(out[1].packets) = 1
    /\ Len(seen) = 2
    /\ rd.queue = <<>>

-----------------------------------------------------------------------------
(* A SpoolRecordReader constructed with a resume point, on a spool of a    *)
(* few files of one record each that a sensor goes on appending to; the    *)
(* resume file may be one of the files or a file that is not there.  The   *)
(* resume point is recorded.  No file is deleted.                          *)

InitMissing ==
    /\ \E n \in 0..StaticFiles :
          /\ content = [f \in 1..n |-> Written(EVENT, f)]
          /\ dir = 1..n
          /\ nwritten = n
    /\ wpend = <<>>
    /\ \E tail \in BOOLEAN, init_filename \in 0..(StaticFiles + 1),
          init_offset \in {0, Len(Written(EVENT, 1))} :
          /\ init_filename = 0 => init_offset = 0
          /\ LET s == SpoolInit("record", tail, init_filename, init_offset, dir)
             IN  /\ rd = s.r
                 /\ hooks = s.hook
                 /\ opens = s.opened
          /\ ctor = [recorded |-> TRUE, init_filename |-> init_filename,
                     init_offset |-> init_offset,
                     exists |-> init_filename \in dir]
    /\ out = <<>> /\ seen = <<>>
    /\ ForkIdle /\ StreamIdle /\ AggIdle /\ FileIdle

NextMissing ==
    \/ RdCall \/ RdList \/ RdOpen \/ RdRead \/ RdSleep
    \/ Rotate \/ WriteRecord

SpecMissing == InitMissing /\ [][NextMissing]_vars

\* The reader was given a resume file that was not in the directory.
ResumeFileMissing == ctor.recorded /\ ctor.init_filename # 0 /\ ~ctor.exists

\* The first file of the directory in the order of the names.
FirstFile == CHOOSE f \in dir : \A g \in dir : f <= g

\* Before the first call of next() no file is open, tell() is (None, None)
\* and the hook has not been called; the first file opened is the first of
\* the directory, with a hook call (None, that file), and the first record
\* read from it is the record at its offset 0.
StartsFromNothing ==
    ResumeFileMissing =>
        /\ rd.calls = 0 =>
              /\ rd.fileobj = NoFile
              /\ tell(rd) = << 0, 0 >>
              /\ hooks = <<>> /\ opens = <<>>
        /\ opens # <<>> =>
              /\ opens[1] = FirstFile
              /\ hooks[1] = << 0, FirstFile >>
        /\ (Len(opens) = 1 /\ seen # <<>>) =>
              seen[1] = Head(RecordsFrom(content[opens[1]], 0))

\* The first call lists the directory and, when it is not empty, goes on to
\* open its first file, which it reads from offset 0.
FirstCallOpensFirstFile ==
    (ResumeFileMissing /\ rd.calls = 1 /\ opens = <<>> /\ rd' # rd) =>
        /\ (rd.pc = "list" /\ dir # {}) =>
              (rd'.pc = "open" /\ rd'.target = FirstFile)
        /\ rd.pc = "open" =>
              /\ rd'.fileobj = [name |-> FirstFile, pos |-> 0, closed |-> FALSE]
              /\ rd'.pc = "read"
              /\ opens' = << FirstFile >>

\* C21: a SpoolRecordReader constructed with a resume filename that is not
\* in the spool directory starts with no file open, tell() is (None, None),
\* and the hook is not called at construction; the resume offset is
\* ignored: the first next() opens the first file of the directory in the
\* order of the names and reads it from offset 0.
C21_MissingResumeFile ==
    /\ []StartsFromNothing
    /\ [][FirstCallOpensFirstFile]_vars

\* Resume file 3 of a spool holding files 1 and 2, with the offset of the
\* end of a record: the first call opened file 1 and returned its record.
C21_Witness ==
    /\ ctor = [recorded |-> TRUE, init_filename |-> 3,
               init_offset |-> Len(Written(EVENT, 1)), exists |-> FALSE]
    /\ rd.pc = "idle" /\ rd.calls = 1
    /\ opens = << 1 >>
    /\ hooks = << << 0, 1 >> >>
    /\ Len(out) = 1 /\ out[1].buf[1] = 1
    /\ tell(rd) = << 1, Len(Written(EVENT, 1)) >>

=============================================================================
